---- MODULE Spec2Model ----
(***************************************************************************)
(* Model of sample.js, the controller of the newsletter sign-up form.      *)
(*                                                                         *)
(* The state is the part of the DOM the script reads and writes: the       *)
(* value of #emailInput and its two inline styles, the text and inline     *)
(* display of #errorMessage, the inline display of #main-area and of the   *)
(* header image, the 'hidden' class of #successMessage and the text of     *)
(* #emailDisplay.  One action per event listener; each runs to completion. *)
(*                                                                         *)
(* Strings that the script inspects character by character (the input      *)
(* value, the displayed email) are sequences of one-character strings.     *)
(***************************************************************************)
EXTENDS Naturals, Sequences, FiniteSets

VARIABLES
    value,            \* emailInput.value
    errorText,        \* errorMessage.textContent
    errorDisplay,     \* errorMessage.style.display
    borderColor,      \* emailInput.style.borderColor
    backgroundColor,  \* emailInput.style.backgroundColor
    mainDisplay,      \* document.getElementById('main-area').style.display
    headerDisplay,    \* document.querySelector('section .header-img').style.display
    successHidden,    \* successMessage.classList.contains('hidden')
    emailDisplay,     \* emailDisplay.textContent
    lastEvent,        \* history: the event whose listener ran last
    accepted          \* history: the value read by the last submit that reached
                      \* showSuccessMessage (<<>> while there was none)

errorVars == <<errorText, errorDisplay, borderColor, backgroundColor>>
viewVars  == <<mainDisplay, headerDisplay, successHidden>>
domVars   == <<value, errorVars, viewVars, emailDisplay>>
vars      == <<domVars, lastEvent, accepted>>

----------------------------------------------------------------------------
(* Bounds of the model *)

\* longest string enumerated exhaustively for the shape check
MaxLen == 6
\* longest string a user types in the page model, besides the Samples
MaxTyped == 2

----------------------------------------------------------------------------
(* Characters and strings *)

Lower == {"a","b","c","d","e","f","g","h","i","j","k","l","m",
          "n","o","p","q","r","s","t","u","v","w","x","y","z"}
Upper == {"A","B","C","D","E","F","G","H","I","J","K","L","M",
          "N","O","P","Q","R","S","T","U","V","W","X","Y","Z"}

\* \s of the regular expression, as far as the strings of the model go
Whitespace == {" ", "\t"}

\* one representative of each class of characters the pattern tells apart
Alphabet == {"a", "Z", "1", "@", ".", " "}

StringsUpTo(n) == UNION {[1..k -> Alphabet] : k \in 0..n}

\* the strings the sources name, character by character
Samples ==
    { <<"a","b","c">>,
      <<"a","@","b">>,
      <<"a","@","b",".","c">>,
      <<"a","@","@","b",".","c","o","m">>,
      <<" ","a","@","b",".","c","o">>,
      <<"a","@","b",".","c","o"," ">>,
      <<"a","@","b",".","c","o">>,
      <<"A","@","b",".","C","O">>,
      <<"a",".","b","@","c",".","d",".","i","o">>,
      <<"a","@","b",".","c","1">>,
      <<"u","s","e","r","@","e","x","a","m","p","l","e",".","c","o","m">> }

\* the values an input event can leave in the field
Inputs == StringsUpTo(MaxTyped) \cup Samples

Keys == {"Enter", "a", "Tab"}

----------------------------------------------------------------------------
(* isValidEmail: /^[^\s@]+@[^\s@]+\.[a-z]{2,}$/i                           *)

\* [^\s@]
NotSpaceAt(c) == c \notin Whitespace /\ c # "@"
\* variant: [a-z] without the i flag
IsLetter_CaseSensitive(c) == c \in Lower

\* [a-z] under the i flag
IsLetter(c) == c \in Lower \cup Upper

(* The pattern as the automaton a regular-expression engine runs:          *)
(*   0 start                  1 inside the first  [^\s@]+                  *)
(*   2 after @                3 inside the second [^\s@]+                  *)
(*   4 after \.               5 one letter of [a-z]{2,}                    *)
(*   6 two or more letters (the only place where $ can match)              *)
\* variant: the pattern ends in [a-z]+ instead of [a-z]{2,}
Step_OneLetterTld(q, c) ==
    CASE q = 0 -> IF NotSpaceAt(c) THEN {1} ELSE {}
      [] q = 1 -> (IF NotSpaceAt(c) THEN {1} ELSE {}) \cup (IF c = "@" THEN {2} ELSE {})
      [] q = 2 -> IF NotSpaceAt(c) THEN {3} ELSE {}
      [] q = 3 -> (IF NotSpaceAt(c) THEN {3} ELSE {}) \cup (IF c = "." THEN {4} ELSE {})
      [] q = 4 -> IF IsLetter(c) THEN {6} ELSE {}
      [] q = 5 -> IF IsLetter(c) THEN {6} ELSE {}
      [] q = 6 -> IF IsLetter(c) THEN {6} ELSE {}

Step(q, c) ==
    CASE q = 0 -> IF NotSpaceAt(c) THEN {1} ELSE {}
      [] q = 1 -> (IF NotSpaceAt(c) THEN {1} ELSE {}) \cup (IF c = "@" THEN {2} ELSE {})
      [] q = 2 -> IF NotSpaceAt(c) THEN {3} ELSE {}
      [] q = 3 -> (IF NotSpaceAt(c) THEN {3} ELSE {}) \cup (IF c = "." THEN {4} ELSE {})
      [] q = 4 -> IF IsLetter(c) THEN {5} ELSE {}
      [] q = 5 -> IF IsLetter(c) THEN {6} ELSE {}
      [] q = 6 -> IF IsLetter(c) THEN {6} ELSE {}

RECURSIVE Run(_, _, _)
Run(s, i, Q) ==
    IF i > Len(s) \/ Q = {} THEN Q
    ELSE Run(s, i + 1, UNION {Step(q, s[i]) : q \in Q})

isValidEmail(email) == 6 \in Run(email, 1, {0})

----------------------------------------------------------------------------
(* The two literal messages and the inline style values *)

MsgRequired == "Email is required"
MsgInvalid  == "Please enter a valid email address"

ErrorBorder     == "#FF6155"
ErrorBackground == "#FFE8E6"
NeutralBorder     == "hsl(0, 0%, 58%)"
NeutralBackground == "transparent"

----------------------------------------------------------------------------
(* Helpers of the script *)

\* variant: the message is shown but the input is not decorated
showError_NoDecoration(message) ==
    /\ errorText' = message
    /\ errorDisplay' = "block"
    /\ UNCHANGED <<borderColor, backgroundColor>>

showError(message) ==
    /\ errorText' = message
    /\ errorDisplay' = "block"
    /\ borderColor' = ErrorBorder
    /\ backgroundColor' = ErrorBackground

\* variant: the text is emptied but the region and the input keep their styles
clearError_TextOnly ==
    /\ errorText' = ""
    /\ UNCHANGED <<errorDisplay, borderColor, backgroundColor>>

clearError ==
    /\ errorText' = ""
    /\ errorDisplay' = "none"
    /\ borderColor' = NeutralBorder
    /\ backgroundColor' = NeutralBackground

\* variant: the form is left showing
showSuccessMessage_KeepsForm(email) ==
    /\ headerDisplay' = "none"
    /\ successHidden' = FALSE
    /\ emailDisplay' = email
    /\ value' = <<>>
    /\ UNCHANGED mainDisplay

\* variant: the input is cleared first and the display then reads the input
showSuccessMessage_DisplaysInput(email) ==
    /\ mainDisplay' = "none"
    /\ headerDisplay' = "none"
    /\ successHidden' = FALSE
    /\ value' = <<>>
    /\ emailDisplay' = value'

showSuccessMessage(email) ==
    /\ mainDisplay' = "none"
    /\ headerDisplay' = "none"
    /\ successHidden' = FALSE
    /\ emailDisplay' = email
    /\ value' = <<>>

----------------------------------------------------------------------------
(* What the page shows, read off the DOM state *)

\* #main-area is shown unless its inline display is 'none'
FormRegionVisible == mainDisplay # "none"
HeaderVisible == headerDisplay # "none"
\* #successMessage is shown unless it carries the class 'hidden'
SuccessRegionVisible == ~successHidden
\* #errorMessage is hidden by the stylesheet until its inline display is 'block'
ErrorRegionVisible == errorDisplay = "block"

ErrorShown(message) ==
    /\ errorText = message
    /\ ErrorRegionVisible
    /\ borderColor = ErrorBorder
    /\ backgroundColor = ErrorBackground

NoError ==
    /\ errorText = ""
    /\ ~ErrorRegionVisible
    /\ borderColor \in {"", NeutralBorder}
    /\ backgroundColor \in {"", NeutralBackground}

----------------------------------------------------------------------------
(* Event listeners *)

\* history record of an event: its kind, the key pressed (if any), the input
\* value its listener found, and what the page showed when it fired
Event(kind, key, read) ==
    [kind |-> kind, key |-> key, read |-> read,
     hadError |-> ErrorRegionVisible, wasSuccess |-> SuccessRegionVisible]

\* the values with which the submit listener gets past both of its checks
Accepts(email) == email # <<>> /\ isValidEmail(email)

\* variant: the shape check runs before the emptiness check
submitBtn_click_ShapeFirst ==
    LET email == value IN
    IF ~isValidEmail(email)
    THEN /\ showError(MsgInvalid)
         /\ UNCHANGED <<value, viewVars, emailDisplay>>
    ELSE IF email = <<>>
    THEN /\ showError(MsgRequired)
         /\ UNCHANGED <<value, viewVars, emailDisplay>>
    ELSE /\ showSuccessMessage(email)
         /\ UNCHANGED errorVars

\* variant: a rejected value is wiped from the input
submitBtn_click_ClearsOnError ==
    LET email == value IN
    IF email = <<>>
    THEN /\ showError(MsgRequired)
         /\ UNCHANGED <<value, viewVars, emailDisplay>>
    ELSE IF ~isValidEmail(email)
    THEN /\ showError(MsgInvalid)
         /\ value' = <<>>
         /\ UNCHANGED <<viewVars, emailDisplay>>
    ELSE /\ showSuccessMessage(email)
         /\ UNCHANGED errorVars

\* variant: the listener without its shape check
submitBtn_click_NoShapeCheck ==
    LET email == value IN
    IF email = <<>>
    THEN /\ showError(MsgRequired)
         /\ UNCHANGED <<value, viewVars, emailDisplay>>
    ELSE /\ showSuccessMessage(email)
         /\ UNCHANGED errorVars

\* the 'click' listener of submitBtn, on the DOM alone
submitBtn_click ==
    LET email == value IN
    IF email = <<>>
    THEN /\ showError(MsgRequired)
         /\ UNCHANGED <<value, viewVars, emailDisplay>>
    ELSE IF ~isValidEmail(email)
    THEN /\ showError(MsgInvalid)
         /\ UNCHANGED <<value, viewVars, emailDisplay>>
    ELSE /\ showSuccessMessage(email)
         /\ UNCHANGED errorVars

\* variant: typing does not clear the error
InputChange_NoClear(v) ==
    /\ value' = v
    /\ UNCHANGED <<errorVars, viewVars, emailDisplay>>
    /\ lastEvent' = Event("input", "", v)
    /\ UNCHANGED accepted

\* the 'input' listener of emailInput; the browser has stored the new value
InputChange(v) ==
    /\ value' = v
    /\ clearError
    /\ UNCHANGED <<viewVars, emailDisplay>>
    /\ lastEvent' = Event("input", "", v)
    /\ UNCHANGED accepted

SubmitClick ==
    /\ submitBtn_click
    /\ lastEvent' = Event("click", "", value)
    /\ accepted' = IF Accepts(value) THEN value ELSE accepted

\* variant: the dismiss listener without its closing clearError()
Dismiss_NoClearError ==
    /\ successHidden' = TRUE
    /\ mainDisplay' = "block"
    /\ headerDisplay' = "block"
    /\ UNCHANGED <<value, errorVars, emailDisplay>>
    /\ lastEvent' = Event("dismiss", "", value)
    /\ UNCHANGED accepted

\* variant: dismissing also empties the display region
Dismiss_ClearsDisplay ==
    /\ successHidden' = TRUE
    /\ mainDisplay' = "block"
    /\ headerDisplay' = "block"
    /\ clearError
    /\ emailDisplay' = <<>>
    /\ UNCHANGED value
    /\ lastEvent' = Event("dismiss", "", value)
    /\ UNCHANGED accepted

\* the 'click' listener of dismissBtn
Dismiss ==
    /\ successHidden' = TRUE
    /\ mainDisplay' = "block"
    /\ headerDisplay' = "block"
    /\ clearError
    /\ UNCHANGED <<value, emailDisplay>>
    /\ lastEvent' = Event("dismiss", "", value)
    /\ UNCHANGED accepted

\* variant: every key submits
KeyPress_AnyKey(key) ==
    /\ submitBtn_click
    /\ lastEvent' = Event("keypress", key, value)
    /\ accepted' = IF Accepts(value) THEN value ELSE accepted

\* the 'keypress' listener of emailInput
KeyPress(key) ==
    /\ IF key = "Enter" THEN submitBtn_click ELSE UNCHANGED domVars
    /\ lastEvent' = Event("keypress", key, value)
    /\ accepted' = IF key = "Enter" /\ Accepts(value) THEN value ELSE accepted

----------------------------------------------------------------------------
(* The page *)

\* the page as loaded: no inline style set, the success section hidden
Init ==
    /\ value = <<>>
    /\ errorText = ""
    /\ errorDisplay = ""
    /\ borderColor = ""
    /\ backgroundColor = ""
    /\ mainDisplay = ""
    /\ headerDisplay = ""
    /\ successHidden = TRUE
    /\ emailDisplay = <<>>
    /\ lastEvent = Event("load", "", <<>>)
    /\ accepted = <<>>

Next ==
    \/ \E v \in Inputs : InputChange(v)
    \/ SubmitClick
    \/ \E key \in Keys : KeyPress(key)
    \/ Dismiss

Spec == Init /\ [][Next]_vars

\* the page after one input event that left any string up to MaxLen in the
\* field, and from there the submit and dismiss controls
InitEmail ==
    /\ value \in StringsUpTo(MaxLen)
    /\ errorText = ""
    /\ errorDisplay = "none"
    /\ borderColor = NeutralBorder
    /\ backgroundColor = NeutralBackground
    /\ mainDisplay = ""
    /\ headerDisplay = ""
    /\ successHidden = TRUE
    /\ emailDisplay = <<>>
    /\ lastEvent = [kind |-> "input", key |-> "", read |-> value,
                    hadError |-> FALSE, wasSuccess |-> FALSE]
    /\ accepted = <<>>

NextEmail ==
    \/ SubmitClick
    \/ Dismiss

SpecEmail == InitEmail /\ [][NextEmail]_vars

----------------------------------------------------------------------------
(* Properties *)

\* the last event ran the submit path: a click, or the Enter key
IsSubmit(e) == e.kind = "click" \/ (e.kind = "keypress" /\ e.key = "Enter")

UserAtExample ==
    <<"u","s","e","r","@","e","x","a","m","p","l","e",".","c","o","m">>

\* C1: in every reachable state exactly one of the form region and the
\* success region is visible: never both, never neither.
C1_ExactlyOneRegionVisible == FormRegionVisible # SuccessRegionVisible

\* the form is back after a dismiss that closed a success view showing an email
C1_Witness ==
    /\ lastEvent.kind = "dismiss"
    /\ lastEvent.wasSuccess
    /\ emailDisplay # <<>>
    /\ FormRegionVisible
    /\ ~SuccessRegionVisible

\* C2: a submit fired on a non-empty value v that passes the shape check hides
\* the form region and the header image, shows the success region, sets the
\* display text to exactly v and empties the input.
C2_ValidSubmitShowsSuccess ==
    [][ (IsSubmit(lastEvent') /\ value # <<>> /\ isValidEmail(value))
        => /\ ~FormRegionVisible'
           /\ ~HeaderVisible'
           /\ SuccessRegionVisible'
           /\ emailDisplay' = value
           /\ value' = <<>> ]_vars

C2_Witness ==
    /\ lastEvent.kind = "click"
    /\ lastEvent.read = UserAtExample
    /\ ~lastEvent.wasSuccess
    /\ emailDisplay = UserAtExample
    /\ value = <<>>
    /\ SuccessRegionVisible
    /\ ~FormRegionVisible

\* C3: a submit fired on the empty value shows "Email is required" with the
\* error decoration, and so never the other message.
C3_EmptySubmitIsRequired ==
    [][ (IsSubmit(lastEvent') /\ value = <<>>)
        => (ErrorShown(MsgRequired)' /\ errorText' # MsgInvalid) ]_vars

C3_Witness ==
    /\ lastEvent.kind = "click"
    /\ lastEvent.read = <<>>
    /\ ~lastEvent.hadError
    /\ ErrorShown(MsgRequired)

\* the malformed values the sources name
MalformedExamples ==
    { <<"a","b","c">>,
      <<"a","@","b">>,
      <<"a","@","b",".","c">>,
      <<"a","@","@","b",".","c","o","m">>,
      <<" ">>,
      <<" "," ">>,
      <<" ","a","@","b",".","c","o">>,
      <<"a","@","b",".","c","o"," ">> }

MatchesShape(s) ==
    \E i, j \in 1..Len(s) :
        /\ 1 < i /\ i + 1 < j /\ j + 2 <= Len(s)
        /\ s[i] = "@"
        /\ s[j] = "."
        /\ \A k \in 1..(i - 1) : s[k] \notin {" ", "\t", "@"}
        /\ \A k \in (i + 1)..(j - 1) : s[k] \notin {" ", "\t", "@"}
        /\ \A k \in (j + 1)..Len(s) : s[k] \in Lower \cup Upper

C6_InputChangeClearsError ==
    [][ lastEvent'.kind = "input"
        => /\ NoError'
           /\ errorText' = ""
           /\ ~ErrorRegionVisible'
           /\ borderColor' = NeutralBorder
           /\ backgroundColor' = NeutralBackground ]_vars

\* an error was showing, and the value typed next is still malformed
C6_Witness ==
    /\ lastEvent.kind = "input"
    /\ lastEvent.hadError
    /\ value = <<"a","b","c">>
    /\ NoError

\* C7: a dismiss fired while the success region is visible hides it, shows the
\* form region and the header image, and leaves no error.
C7_DismissRestoresForm ==
    [][ (lastEvent'.kind = "dismiss" /\ SuccessRegionVisible)
        => /\ ~SuccessRegionVisible'
           /\ FormRegionVisible'
           /\ HeaderVisible'
           /\ NoError' ]_vars

\* a dismiss of a success view in which an error had come to show
C7_Witness ==
    /\ lastEvent.kind = "dismiss"
    /\ lastEvent.wasSuccess
    /\ lastEvent.hadError
    /\ FormRegionVisible
    /\ HeaderVisible
    /\ ~SuccessRegionVisible
    /\ NoError

\* C8: an Enter keypress has exactly the successor a click on the submit
\* control has in the same state; any other key changes nothing.
C8_EnterEqualsClick ==
    [][ lastEvent'.kind = "keypress"
        => IF lastEvent'.key = "Enter"
           THEN submitBtn_click
           ELSE UNCHANGED domVars ]_vars

C8_Witness ==
    /\ lastEvent.kind = "keypress"
    /\ lastEvent.key = "Enter"
    /\ lastEvent.read # <<>>
    /\ emailDisplay = lastEvent.read
    /\ value = <<>>
    /\ SuccessRegionVisible

\* C9: whenever the success region is visible there is no error.
C9_NoErrorWhileSuccess == SuccessRegionVisible => NoError

\* a step of the submit path that wrote the value it read into the display
\* region and emptied the input
SuccessfulSubmitStep ==
    /\ IsSubmit(lastEvent')
    /\ value # <<>>
    /\ emailDisplay' = value
    /\ value' = <<>>
    /\ SuccessRegionVisible'

\* C10: right after any successful submit there is no error: empty error text,
\* hidden error region, neutral input decoration.
C10_NoErrorAfterSuccess ==
    [][ SuccessfulSubmitStep => NoError' ]_vars

\* a successful resubmission after an earlier error had been cleared
C10_Witness ==
    /\ IsSubmit(lastEvent)
    /\ lastEvent.read # <<>>
    /\ ~lastEvent.hadError
    /\ emailDisplay = lastEvent.read
    /\ SuccessRegionVisible
    /\ errorDisplay = "none"
    /\ NoError

\* C11: a submit that ends in a validation error (empty or malformed value)
\* leaves the visibility of the form region, the header image and the success
\* region, the input value and the display text as they were.
C11_FailedSubmitFrame ==
    [][ (IsSubmit(lastEvent') /\ (value = <<>> \/ ~isValidEmail(value)))
        => /\ FormRegionVisible' = FormRegionVisible
           /\ HeaderVisible' = HeaderVisible
           /\ SuccessRegionVisible' = SuccessRegionVisible
           /\ UNCHANGED <<viewVars, value, emailDisplay>> ]_vars

\* a malformed value rejected on the form, still in the input afterwards,
\* with an earlier accepted email still in the display region
C11_Witness ==
    /\ lastEvent.kind = "click"
    /\ lastEvent.read = <<"a","@","b",".","c">>
    /\ ~lastEvent.hadError
    /\ ~lastEvent.wasSuccess
    /\ ErrorShown(MsgInvalid)
    /\ value = lastEvent.read
    /\ emailDisplay # <<>>
    /\ FormRegionVisible

\* C12: the error text, the error region's visibility and the input decoration
\* agree in every reachable state: either the region is visible, its text is
\* one of the two messages and the input has the error border and background,
\* or the region is not visible, its text is empty and the input has neither.
C12_ErrorPartsAgree ==
    \/ /\ ErrorRegionVisible
       /\ errorText \in {MsgRequired, MsgInvalid}
       /\ borderColor = ErrorBorder
       /\ backgroundColor = ErrorBackground
    \/ /\ ~ErrorRegionVisible
       /\ errorText = ""
       /\ borderColor # ErrorBorder
       /\ backgroundColor # ErrorBackground

\* the Enter key pressed again on the empty input, its error already showing
C12_Witness ==
    /\ lastEvent.kind = "keypress"
    /\ lastEvent.key = "Enter"
    /\ lastEvent.hadError
    /\ lastEvent.read = <<>>
    /\ ErrorShown(MsgRequired)

\* C13: whenever the success region is visible, the display text is a
\* non-empty string that passes isValidEmail and is the value read by the
\* most recent successful submit.
C13_SuccessShowsAcceptedEmail ==
    SuccessRegionVisible
        => /\ emailDisplay # <<>>
           /\ isValidEmail(emailDisplay)
           /\ emailDisplay = accepted

\* the success view of an accepted address, its capitals kept, after a
\* malformed value has been typed under it
C13_Witness ==
    /\ SuccessRegionVisible
    /\ lastEvent.kind = "input"
    /\ lastEvent.wasSuccess
    /\ value = <<"a","@","b">>
    /\ emailDisplay = <<"A","@","b",".","C","O">>
    /\ accepted = emailDisplay

\* C14: the display text changes only in a successful submit, which sets it
\* to the value read; every other event leaves it alone, so it holds the last
\* successfully submitted email also after a dismiss, until the next
\* successful submit.
C14_DisplayWrittenOnlyBySuccess ==
    [][ /\ emailDisplay' # emailDisplay
           => /\ IsSubmit(lastEvent')
              /\ value # <<>>
              /\ isValidEmail(value)
              /\ emailDisplay' = value
        /\ ( \/ lastEvent'.kind \in {"input", "dismiss"}
             \/ (lastEvent'.kind = "keypress" /\ lastEvent'.key # "Enter")
             \/ (IsSubmit(lastEvent') /\ (value = <<>> \/ ~isValidEmail(value))) )
           => emailDisplay' = emailDisplay
        /\ emailDisplay' = accepted' ]_vars

\* back on the form after a dismiss: a malformed value typed, another key
\* pressed, and the display region still holding the accepted address
C14_Witness ==
    /\ lastEvent.kind = "keypress"
    /\ lastEvent.key = "Tab"
    /\ ~lastEvent.wasSuccess
    /\ ~SuccessRegionVisible
    /\ value = <<"a","b","c">>
    /\ emailDisplay = UserAtExample
    /\ accepted = UserAtExample

====
